---- MODULE Spec2Model ----
(***************************************************************************)
(* A state-machine model of the MuseScore capture tool: the Flask task     *)
(* registry and login routes of app.py and the capture pipeline of         *)
(* src/capture.py (MuseScoreCapture).                                      *)
(*                                                                         *)
(* Every capture request runs in a thread of its own; the shared state is  *)
(* the `tasks` dict, the global `capture_instance`, and the on-disk        *)
(* browser profile (BROWSER_DATA_DIR) with its Singleton lock files.       *)
(* Thread steps are split where the code writes shared state or awaits.    *)
(***************************************************************************)
EXTENDS Integers, Sequences, FiniteSets, TLC

(* ------------------------------ bounds --------------------------------- *)
\* capture requests accepted by api_capture
MaxTasks == 2
\* MuseScoreCapture objects created by api_login_start
MaxLogins == 1
\* largest score_<n> token carried by a locator of the page
MaxTok == 1
\* locators a loaded score page can expose
MaxUrls == 3
\* locators of the score page when several captures and the login flow interleave
MaxSharedUrls == 1
\* largest "n of M pages" count the page metadata advertises
MaxPages == 2
\* longest fragment list handed to _merge_pdfs on its own
MaxFrags == 3
\* stop() calls made on one MuseScoreCapture object used on its own
MaxStops == 2
\* elements of a page handed to _extract_svg_urls on its own
MaxElems == 2

(* ------------------------- program constants --------------------------- *)
\* range(expected_pages + 5)
ScrollExtra == 5

(* ------------------------------ values --------------------------------- *)
\* Python's None and a present value, as sequences of length 0 and 1
None == <<>>
Some(x) == <<x>>

TaskIds == 1..MaxTasks
LoginIds == 1..MaxLogins
TaskSession(t) == <<"task", t>>
LoginSession(l) == <<"login", l>>
Sessions == {TaskSession(t) : t \in TaskIds} \cup {LoginSession(l) : l \in LoginIds}

\* A locator: the score_<n> token of the URL (NoTok when the URL has no
\* "score_<digits>" substring) and the rest of the URL. The pool holds one URL
\* per token, one without a token, and a second URL carrying score_0.
NoTok == -1
UrlPool == [tok : (0..MaxTok) \cup {NoTok}, rest : {"a"}] \cup [tok : {0}, rest : {"b"}]

ERR_INFO == "cannot read score info"
ERR_URLS == "cannot get SVG urls"
ERR_EXC == "exception"

(* ------------------------------ state ---------------------------------- *)
VARIABLES
    tasks,            \* app.py `tasks`: task id -> task record (domain = created ids)
    pc,               \* position of each task's thread in run_capture/do_capture
    run,              \* locals of each task's capture_score_pages invocation
    hist,             \* per task: progress_callback calls, fetch outcomes, steps that raised
    playwright,       \* per MuseScoreCapture: self.playwright is not None
    context,          \* per MuseScoreCapture: self.context is not None
    page,             \* per MuseScoreCapture: self.page is not None
    proc,             \* per MuseScoreCapture: its browser process on the profile
    lockFile,         \* BROWSER_DATA_DIR/Singleton{Lock,Socket,Cookie} exist
    capture_instance, \* app.py global: None or Some(login session)
    loginCount,       \* MuseScoreCapture objects created by api_login_start so far
    login_url,        \* capture_instance.page.url: "none", "login" or "other"
    logged_in_file,   \* BROWSER_DATA_DIR/.logged_in exists
    site,             \* the score page (the locators it can mount, the page count of its alt
                      \* text) and whether the captures of it fall into one clock second
    merge_in,         \* a _merge_pdfs call on its own: [pdf_files, on_disk]
    merge_out,        \* its outcome: None or Some([raised, doc])
    life,             \* per MuseScoreCapture used on its own: start() called, the stop() calls
    dom,              \* an _extract_svg_urls call on its own: the elements of the page
    url_set           \* its outcome: None or Some(the set after the call)

vars == <<tasks, pc, run, hist, playwright, context, page, proc, lockFile,
          capture_instance, loginCount, login_url, logged_in_file, site,
          merge_in, merge_out, life, dom, url_set>>

sessVars == <<playwright, context, page, proc, lockFile>>
loginVars == <<capture_instance, loginCount, login_url, logged_in_file>>
callVars == <<merge_in, merge_out, life, dom, url_set>>

(* --------------------------- pure functions ---------------------------- *)
\* re.search(r'score_(\d+)', url): the token, or 0 when there is none
_extract_page_num(url) == IF url.tok = NoTok THEN 0 ELSE url.tok

\* all orders of a finite set
Perms(S) == {s \in [1..Cardinality(S) -> S] : \A i, j \in 1..Cardinality(S) : s[i] = s[j] => i = j}

IsSortedByPageNum(s) == \A i \in 1..(Len(s) - 1) : _extract_page_num(s[i]) <= _extract_page_num(s[i + 1])

\* a plausible slip: the set is turned into a list without sorting it
unsorted_urls(collected_urls) == Perms(collected_urls)

\* sorted(collected_urls, key=_extract_page_num): the sort is stable over the
\* set's iteration order, which is arbitrary, so ties come out in any order
sorted_urls(collected_urls) == {s \in Perms(collected_urls) : IsSortedByPageNum(s)}

\* a plausible slip: no os.path.exists test, so merger.append raises on a missing file
RECURSIVE merge_no_exists_test(_, _)
merge_no_exists_test(pdf_files, on_disk) ==
    IF pdf_files = <<>> THEN [raised |-> FALSE, doc |-> <<>>]
    ELSE IF Head(pdf_files) \notin on_disk THEN [raised |-> TRUE, doc |-> <<>>]
    ELSE LET rest == merge_no_exists_test(Tail(pdf_files), on_disk)
         IN  [raised |-> rest.raised, doc |-> <<Head(pdf_files)>> \o rest.doc]

\* _merge_pdfs: the loop over pdf_files, appending the files that exist
RECURSIVE _merge_pdfs(_, _)
_merge_pdfs(pdf_files, on_disk) ==
    IF pdf_files = <<>> THEN [raised |-> FALSE, doc |-> <<>>]
    ELSE LET rest == _merge_pdfs(Tail(pdf_files), on_disk)
         IN  IF Head(pdf_files) \in on_disk
             THEN [raised |-> rest.raised, doc |-> <<Head(pdf_files)>> \o rest.doc]
             ELSE rest

\* int(current / total * 100) if total > 0 else 0
Percent(current, total) == IF total > 0 THEN (current * 100) \div total ELSE 0

(* ------------------------------- Init ---------------------------------- *)
NewRun == [total_pages |-> 0, output_dir |-> None, collected_urls |-> {},
           scroller |-> FALSE, scrolls |-> 0,
           all_svg_urls |-> <<>>, page_num |-> 0, pages |-> <<>>,
           pdf_files |-> <<>>, files |-> {}, merged |-> <<>>, result |-> None]
NewHist == [cb |-> <<>>, dl |-> <<>>, failed |-> {}]
Fragments == 1..MaxFrags
NoMerge == [pdf_files |-> <<>>, on_disk |-> {}]
NoLife == [started |-> FALSE, stops |-> <<>>]
NoDom == {}

\* score pages with n locators; the alt text of the first score image reads
\* "1 of M pages" (Some(M)) or something else (None)
Sites(n) == [urls : {D \in SUBSET UrlPool : Cardinality(D) = n},
             alt_pages : {None} \cup {Some(m) : m \in 0..MaxPages},
             same_second : {FALSE}]

InitWith(S, M, D) ==
    /\ tasks = <<>>
    /\ pc = [t \in TaskIds |-> "idle"]
    /\ run = [t \in TaskIds |-> NewRun]
    /\ hist = [t \in TaskIds |-> NewHist]
    /\ playwright = [s \in Sessions |-> FALSE]
    /\ context = [s \in Sessions |-> FALSE]
    /\ page = [s \in Sessions |-> FALSE]
    /\ proc = [s \in Sessions |-> "none"]
    /\ lockFile = FALSE
    /\ capture_instance = None
    /\ loginCount = 0
    /\ login_url = "none"
    /\ logged_in_file = FALSE
    /\ site \in S
    /\ merge_in \in M
    /\ merge_out = None
    /\ life = [s \in Sessions |-> NoLife]
    /\ dom \in D
    /\ url_set = None

\* the server after start-up, serving a score of MaxSharedUrls pages, each with
\* its locator
SharedSite == [urls |-> [tok : 0..(MaxSharedUrls - 1), rest : {"a"}],
               alt_pages |-> Some(MaxSharedUrls), same_second |-> FALSE]

\* the same score, requested so that the captures name their directories
\* within one clock second
SameSecondSite == [SharedSite EXCEPT !.same_second = TRUE]

Init == InitWith({SharedSite}, {NoMerge}, {NoDom})

(* ------------------- MuseScoreCapture: start and stop ------------------ *)
\* the session-related state as one value, so that a handler's calls compose
Sess == [playwright |-> playwright, context |-> context, page |-> page,
         proc |-> proc, lockFile |-> lockFile]

SetSess(S) ==
    /\ playwright' = S.playwright
    /\ context' = S.context
    /\ page' = S.page
    /\ proc' = S.proc
    /\ lockFile' = S.lockFile

Live(S) == {s \in Sessions : S.proc[s] = "live"}

\* the browser refuses a profile whose Singleton lock is held by a live process
ProfileLocked(S) == S.lockFile /\ Live(S) # {}

StartOutcomes == {"playwright_raises", "launch_raises", "page_raises", "ok"}

\* which outcomes of start() the environment allows in S
CanStart(S, o) == (o \in {"page_raises", "ok"}) => ~ProfileLocked(S)

\* MuseScoreCapture.start: async_playwright().start(), launch_persistent_context
\* on the profile, then the first page
start(S, s, o) ==
    IF o = "playwright_raises" THEN S
    ELSE LET S1 == [S EXCEPT !.playwright[s] = TRUE]
         IN  IF o = "launch_raises" THEN S1
             ELSE LET S2 == [S1 EXCEPT !.context[s] = TRUE, !.proc[s] = "live",
                                       !.lockFile = TRUE]
                  IN  IF o = "page_raises" THEN S2
                      ELSE [S2 EXCEPT !.page[s] = TRUE]

StopOutcomes == {"close_raises", "stop_raises", "ok"}

\* `if self.context:` and `if self.playwright:`: stop() never resets the two
\* attributes, so each test depends on start() alone
closes_context(S, s) == S.context[s]
stops_driver(S, s) == S.playwright[s]

CanStop(S, s, o) ==
    /\ (o = "close_raises") => closes_context(S, s)
    /\ (o = "stop_raises") => stops_driver(S, s)

\* a plausible slip: stop() leaves the browser context open
stop_without_close(S, s, o) == S

\* MuseScoreCapture.stop: context.close() if there is a context, then
\* playwright.stop() if there is a driver; a clean close releases the lock
stop(S, s, o) ==
    IF closes_context(S, s) /\ o = "close_raises" THEN S
    ELSE IF closes_context(S, s) /\ S.proc[s] = "live"
         THEN [S EXCEPT !.proc[s] = "closed", !.lockFile = FALSE]
         ELSE S

\* subprocess.run(['pkill', '-f', '--user-data-dir=...']): the exit status is not
\* looked at and an exception is swallowed, so the browsers may survive it
pkill(S, kills) ==
    IF kills
    THEN [S EXCEPT !.proc = [s \in Sessions |-> IF S.proc[s] = "live" THEN "killed" ELSE S.proc[s]]]
    ELSE S

\* the loop over lock_files: lock_path.unlink() for each that exists
unlink_lock_files(S) == [S EXCEPT !.lockFile = FALSE]

\* the last reference to a MuseScoreCapture object is gone: its attributes are
\* no longer part of the state; its browser process is, when it still runs
unreachable(S, s) == [S EXCEPT !.playwright[s] = FALSE, !.context[s] = FALSE,
                               !.page[s] = FALSE]

(* ------------------------------ api_capture ---------------------------- *)
NewTask(url) == [url |-> url, status |-> "pending", progress |-> 0, total_pages |-> 0,
                 current_page |-> 0, result |-> None, error |-> None]

Created == DOMAIN tasks

\* POST /api/capture: validate the URL, create the task, start its thread;
\* `limit` is the number of capture requests the clients send
api_capture_upto(limit) ==
    \E url \in {"", "example.com", "musescore.com"} :
        IF url # "musescore.com"
        THEN UNCHANGED vars
        ELSE /\ Len(tasks) < limit
             /\ tasks' = Append(tasks, NewTask(url))
             /\ pc' = [pc EXCEPT ![Len(tasks) + 1] = "start"]
             /\ UNCHANGED <<run, hist, sessVars, loginVars, site, callVars>>

(* ------------------ the task thread: run_capture/do_capture ------------ *)
\* a plausible slip: task_id is a module global that every request overwrites
task_id_of_latest_request(t) == Len(tasks)

\* the task_id captured by the closures run_capture, do_capture and
\* progress_callback of the request that created task t
task_id(t) == t

Failed(t, step) == [hist EXCEPT ![t].failed = @ \cup {step}]

\* await capture.start()
do_capture_start(t) ==
    /\ pc[t] = "start"
    /\ \E o \in StartOutcomes :
        /\ CanStart(Sess, o)
        /\ SetSess(start(Sess, TaskSession(t), o))
        /\ pc' = [pc EXCEPT ![t] = IF o = "ok" THEN "set_running" ELSE "except"]
        /\ hist' = IF o = "ok" THEN hist ELSE Failed(t, "start")
    /\ UNCHANGED <<tasks, run, loginVars, site, callVars>>

\* a plausible slip: the write of "running" is forgotten
status_after_start_forgotten(old) == old

\* the status written at line 281
status_after_start(old) == "running"

\* tasks[task_id]["status"] = "running"
do_capture_running(t) ==
    /\ pc[t] = "set_running"
    /\ tasks' = [tasks EXCEPT ![task_id(t)].status = status_after_start(@)]
    /\ pc' = [pc EXCEPT ![t] = "metadata"]
    /\ UNCHANGED <<run, hist, sessVars, loginVars, site, callVars>>

BrowserLive(t) == proc[TaskSession(t)] = "live"

ErrorResult(msg) == [error |-> Some(msg), total_pages |-> 0, output_dir |-> None,
                     pages |-> <<>>, pdf_file |-> None]

\* output_dir / f"{safe_title}_{timestamp}": every capture is of the same
\* title, and the timestamp has the resolution of a second, so the name is a
\* new one or, when the captures fall into one second, the name that another
\* capture has just computed (that capture has not gone on since). A directory
\* is named after the first task that computed its name.
output_subdir(t) ==
    {t} \cup {run[u].output_dir[1] :
                u \in {v \in TaskIds \ {t} : /\ site.same_second
                                              /\ pc[v] = "discover"
                                              /\ run[v].output_dir # None}}

\* the files in the directory of task t's capture (mkdir(exist_ok=True): the
\* captures that computed the same name write into one directory)
OnDisk(t) ==
    UNION {run[u].files : u \in {v \in TaskIds : v = t \/ (run[v].output_dir # None
                                                          /\ run[v].output_dir = run[t].output_dir)}}

\* pageMatch ? parseInt(pageMatch[2]) : 1
totalPages(alt_pages) == IF alt_pages = None THEN 1 ELSE alt_pages[1]

\* get_score_info and lines 192-204: the navigation raises, or no score image
\* is found (score_info is null), or score_info carries totalPages and the
\* output directory is made
get_score_info(t) ==
    /\ pc[t] = "metadata"
    /\ \/ /\ pc' = [pc EXCEPT ![t] = "except"]
          /\ hist' = Failed(t, "metadata")
          /\ run' = run
       \/ /\ BrowserLive(t)
          /\ run' = [run EXCEPT ![t].result = Some(ErrorResult(ERR_INFO))]
          /\ pc' = [pc EXCEPT ![t] = "returned"]
          /\ hist' = Failed(t, "metadata")
       \/ /\ BrowserLive(t)
          /\ \E dir \in output_subdir(t) :
                run' = [run EXCEPT ![t].total_pages = totalPages(site.alt_pages),
                                   ![t].output_dir = Some(dir)]
          /\ pc' = [pc EXCEPT ![t] = "discover"]
          /\ hist' = hist
    /\ UNCHANGED <<tasks, sessVars, loginVars, site, callVars>>

(* --------------------- _collect_all_svg_urls --------------------------- *)
\* a plausible slip: one iteration too many
scroll_budget_off_by_one(expected_pages) == expected_pages + ScrollExtra + 1

\* range(expected_pages + 5): the number of scroll iterations allowed
scroll_budget(expected_pages) == expected_pages + ScrollExtra

\* _extract_svg_urls: the locators mounted right now, added to the set
Extracted == SUBSET site.urls

\* lines 279-289: the first extraction, then the two scroller queries
\* (`scroller` is whether one of the two selectors matched) and `if scroller:`
collect_first(t) ==
    /\ pc[t] = "discover"
    /\ \/ /\ pc' = [pc EXCEPT ![t] = "except"]
          /\ hist' = Failed(t, "discovery")
          /\ run' = run
       \/ /\ BrowserLive(t)
          /\ \E urls \in Extracted, scroller \in BOOLEAN :
                /\ run' = [run EXCEPT ![t].collected_urls = urls, ![t].scroller = scroller]
                /\ pc' = [pc EXCEPT ![t] = IF scroller THEN "scroll" ELSE "sort"]
          /\ hist' = hist
    /\ UNCHANGED <<tasks, sessVars, loginVars, site, callVars>>

\* a plausible slip: the early exit is forgotten
enough_never(collected_urls, expected_pages) == FALSE

\* if len(collected_urls) >= expected_pages: break
enough(collected_urls, expected_pages) == Cardinality(collected_urls) >= expected_pages

\* lines 291-304: one iteration of the scroll loop
collect_scroll(t) ==
    /\ pc[t] = "scroll"
    /\ run[t].scrolls < scroll_budget(run[t].total_pages)
    /\ \/ /\ pc' = [pc EXCEPT ![t] = "except"]
          /\ hist' = Failed(t, "discovery")
          /\ run' = run
       \/ /\ BrowserLive(t)
          /\ \E urls \in Extracted :
                LET all == run[t].collected_urls \cup urls
                    n == run[t].scrolls + 1
                IN  /\ run' = [run EXCEPT ![t].collected_urls = all, ![t].scrolls = n]
                    /\ pc' = [pc EXCEPT ![t] =
                                IF enough(all, run[t].total_pages)
                                   \/ n >= scroll_budget(run[t].total_pages)
                                THEN "sort" ELSE "scroll"]
          /\ hist' = hist
    /\ UNCHANGED <<tasks, sessVars, loginVars, site, callVars>>

\* the locals of _collect_all_svg_urls and the page count it was given, which
\* capture_score_pages does not read again once discovery has returned
Returned(r, sorted) == [r EXCEPT !.all_svg_urls = sorted, !.collected_urls = {},
                                 !.scroller = FALSE, !.scrolls = 0, !.total_pages = 0]

\* lines 306-308 and 218-221: sort the set and return; an empty list is an
\* error result
collect_sort(t) ==
    /\ pc[t] = "sort"
    /\ \E sorted \in sorted_urls(run[t].collected_urls) :
          IF sorted = <<>>
          THEN /\ run' = [run EXCEPT ![t] = [Returned(@, sorted) EXCEPT
                                              !.result = Some(ErrorResult(ERR_URLS))]]
               /\ pc' = [pc EXCEPT ![t] = "returned"]
               /\ hist' = Failed(t, "discovery")
          ELSE /\ run' = [run EXCEPT ![t] = Returned(@, sorted)]
               /\ pc' = [pc EXCEPT ![t] = "progress"]
               /\ hist' = hist
    /\ UNCHANGED <<tasks, sessVars, loginVars, site, callVars>>

(* ------------------ capture_score_pages: the page loop ----------------- *)
\* a plausible slip: the 0-based enumerate index is reported
progress_current_zero_based(page_num) == page_num

\* progress_callback(page_num + 1, len(all_svg_urls)): the first argument
progress_current(page_num) == page_num + 1

\* lines 223-225 and app.py 283-286: the callback writes the task record
progress_callback(t) ==
    /\ pc[t] = "progress"
    /\ LET current == progress_current(run[t].page_num)
           total == Len(run[t].all_svg_urls)
       IN  /\ tasks' = [tasks EXCEPT ![task_id(t)].current_page = current,
                                     ![task_id(t)].total_pages = total,
                                     ![task_id(t)].progress = Percent(current, total)]
           /\ hist' = [hist EXCEPT ![t].cb = Append(@, <<current, total>>)]
    /\ pc' = [pc EXCEPT ![t] = "download"]
    /\ UNCHANGED <<run, sessVars, loginVars, site, callVars>>

PageEntry(n) == [page |-> n, svg |-> <<n, "svg">>, png |-> <<n, "png">>, pdf |-> <<n, "pdf">>]

\* a plausible slip: the parsed page index names the page instead of the position
page_number_from_token(page_num, url) == _extract_page_num(url)

\* f"page_{page_num + 1}": the 1-based position in the sorted list
page_number(page_num, url) == page_num + 1

\* a plausible slip: the loop is left after its first iteration
after_fetch_first_only(page_num, all_svg_urls) == "finish"

\* for page_num, svg_url in enumerate(all_svg_urls): the next iteration, or the
\* statements after the loop
after_fetch(page_num, all_svg_urls) ==
    IF page_num + 1 < Len(all_svg_urls) THEN "progress" ELSE "finish"

\* lines 227-264: _download_svg (None on any failure), then, for a non-empty
\* body, the SVG file (open/write are outside any try: a failure to save ends
\* the capture), the two conversions and the page entry
fetch_and_convert(t) ==
    /\ pc[t] = "download"
    /\ LET r == run[t]
           n == page_number(r.page_num, r.all_svg_urls[r.page_num + 1])
       IN  \E body \in {"none", "empty", "bytes"}, saved \in BOOLEAN, png \in BOOLEAN, pdf \in BOOLEAN :
              /\ (body # "none") => BrowserLive(t)
              /\ (body # "bytes") => (saved /\ png /\ pdf)
              /\ ~saved => (png /\ pdf)
              /\ run' = [run EXCEPT
                    ![t].page_num = @ + 1,
                    ![t].pages = IF body = "bytes" /\ saved THEN Append(@, PageEntry(n)) ELSE @,
                    ![t].pdf_files = IF body = "bytes" /\ saved /\ pdf
                                     THEN Append(@, <<n, "pdf">>) ELSE @,
                    ![t].files = IF body = "bytes" /\ saved
                                 THEN @ \cup {<<n, "svg">>}
                                        \cup (IF png THEN {<<n, "png">>} ELSE {})
                                        \cup (IF pdf THEN {<<n, "pdf">>} ELSE {})
                                 ELSE @]
              /\ hist' = [hist EXCEPT
                    ![t].dl = Append(@, <<r.all_svg_urls[r.page_num + 1], body>>),
                    ![t].failed = IF saved THEN @ ELSE @ \cup {"save"}]
              /\ pc' = [pc EXCEPT ![t] = IF saved THEN after_fetch(r.page_num, r.all_svg_urls)
                                         ELSE "except"]
    /\ UNCHANGED <<tasks, sessVars, loginVars, site, callVars>>

\* a plausible slip: the merge runs whether or not a fragment was produced
merge_always(pdf_files) == TRUE

\* if len(pdf_files) > 0
merge_wanted(pdf_files) == Len(pdf_files) > 0

\* lines 266-275: the captured page count, the merge, the result
finish_capture(t) ==
    /\ pc[t] = "finish"
    /\ LET r == run[t]
           m == _merge_pdfs(r.pdf_files, OnDisk(t))
           res == [error |-> None, total_pages |-> Len(r.pages), output_dir |-> r.output_dir,
                   pages |-> r.pages, pdf_file |-> None]
       IN  IF merge_wanted(r.pdf_files)
           THEN \E write_ok \in BOOLEAN :
                   IF m.raised \/ ~write_ok
                   THEN /\ pc' = [pc EXCEPT ![t] = "except"]
                        /\ hist' = Failed(t, "merge")
                        /\ run' = run
                   ELSE /\ run' = [run EXCEPT ![t].merged = m.doc,
                                       ![t].files = @ \cup {<<0, "complete.pdf">>},
                                       ![t].result = Some([res EXCEPT !.pdf_file = Some(<<0, "complete.pdf">>)])]
                        /\ pc' = [pc EXCEPT ![t] = "returned"]
                        /\ hist' = hist
           ELSE /\ run' = [run EXCEPT ![t].result = Some(res)]
                /\ pc' = [pc EXCEPT ![t] = "returned"]
                /\ hist' = hist
    /\ UNCHANGED <<tasks, sessVars, loginVars, site, callVars>>

(* ------------------- do_capture: writing the outcome ------------------- *)
TheResult(t) == run[t].result[1]

\* lines 290-294: the status is written first
do_capture_status(t) ==
    /\ pc[t] = "returned"
    /\ IF TheResult(t).error # None
       THEN /\ tasks' = [tasks EXCEPT ![task_id(t)].status = "error"]
            /\ pc' = [pc EXCEPT ![t] = "set_error"]
       ELSE /\ tasks' = [tasks EXCEPT ![task_id(t)].status = "completed"]
            /\ pc' = [pc EXCEPT ![t] = "set_result"]
    /\ UNCHANGED <<run, hist, sessVars, loginVars, site, callVars>>

\* line 292: tasks[task_id]["error"] = result["error"]
do_capture_error(t) ==
    /\ pc[t] = "set_error"
    /\ tasks' = [tasks EXCEPT ![task_id(t)].error = TheResult(t).error]
    /\ pc' = [pc EXCEPT ![t] = "stop"]
    /\ UNCHANGED <<run, hist, sessVars, loginVars, site, callVars>>

\* line 295: tasks[task_id]["result"] = result
do_capture_result(t) ==
    /\ pc[t] = "set_result"
    /\ tasks' = [tasks EXCEPT ![task_id(t)].result = run[t].result]
    /\ pc' = [pc EXCEPT ![t] = "set_progress"]
    /\ UNCHANGED <<run, hist, sessVars, loginVars, site, callVars>>

\* line 296: tasks[task_id]["progress"] = 100
do_capture_progress(t) ==
    /\ pc[t] = "set_progress"
    /\ tasks' = [tasks EXCEPT ![task_id(t)].progress = 100]
    /\ pc' = [pc EXCEPT ![t] = "stop"]
    /\ UNCHANGED <<run, hist, sessVars, loginVars, site, callVars>>

\* a plausible slip: no except clause, the exception only ends the thread
status_on_exception_kept(old) == old

\* the status written at line 299
status_on_exception(old) == "error"

\* line 299: except Exception: tasks[task_id]["status"] = "error"
do_capture_except(t) ==
    /\ pc[t] = "except"
    /\ tasks' = [tasks EXCEPT ![task_id(t)].status = status_on_exception(@)]
    /\ pc' = [pc EXCEPT ![t] = "except_error"]
    /\ UNCHANGED <<run, hist, sessVars, loginVars, site, callVars>>

\* line 300: tasks[task_id]["error"] = str(e)
do_capture_except_error(t) ==
    /\ pc[t] = "except_error"
    /\ tasks' = [tasks EXCEPT ![task_id(t)].error = Some(ERR_EXC)]
    /\ pc' = [pc EXCEPT ![t] = "stop"]
    /\ UNCHANGED <<run, hist, sessVars, loginVars, site, callVars>>

\* finally: await capture.stop(); then the thread ends, with or without an
\* exception, and with it the locals of do_capture (the files it wrote stay,
\* and with them the name of their directory)
do_capture_stop(t) ==
    /\ pc[t] = "stop"
    /\ \E o \in StopOutcomes :
          /\ CanStop(Sess, TaskSession(t), o)
          /\ SetSess(unreachable(stop(Sess, TaskSession(t), o), TaskSession(t)))
          /\ hist' = [hist EXCEPT ![t] = [NewHist EXCEPT !.failed = IF o = "ok" THEN {} ELSE {"stop"}]]
    /\ run' = [run EXCEPT ![t] = [NewRun EXCEPT
                    !.files = run[t].files,
                    !.output_dir = IF run[t].files = {} THEN None ELSE run[t].output_dir]]
    /\ pc' = [pc EXCEPT ![t] = "done"]
    /\ UNCHANGED <<tasks, loginVars, site, callVars>>

(* ------------------------- the read-only routes ------------------------ *)
\* The handlers below write nothing: each is a step that leaves the state as
\* it is, and its answer is a function of the state.
KnownOrNot == 1..(MaxTasks + 1)

\* GET /api/task/<task_id>: the answer's status code
task_status_code(t) == IF t \in Created THEN 200 ELSE 404

api_task_status == UNCHANGED vars

\* GET /api/tasks
api_tasks == UNCHANGED vars

\* a plausible slip: only a missing task is refused
no_result_missing_only(t) == t \notin Created

\* `not task or not task.get("result")`
no_result(t) == t \notin Created \/ tasks[t].result = None

FileNames == {<<1, "svg">>, <<1, "png">>, <<1, "pdf">>, <<0, "complete.pdf">>}

\* GET /api/download/<task_id>/<filename>: the answer's status code
\* (task["result"]["output_dir"] on a None result would raise: a 500)
download_code(t, filename) ==
    IF no_result(t) THEN 404
    ELSE IF tasks[t].result = None THEN 500
    ELSE IF filename \in OnDisk(t) THEN 200 ELSE 404

api_download == UNCHANGED vars

\* GET /api/download-pdf/<task_id>: the answer's status code
\* (task["result"].get on a None result would raise: a 500)
download_pdf_code(t) ==
    IF no_result(t) THEN 404
    ELSE IF tasks[t].result = None THEN 500
    ELSE IF tasks[t].result[1].pdf_file # None /\ tasks[t].result[1].pdf_file[1] \in OnDisk(t)
         THEN 200 ELSE 404

api_download_pdf == UNCHANGED vars

\* GET /api/status: logged_in is the existence of the sentinel file
status_logged_in == logged_in_file

api_status == UNCHANGED vars

(* ---------------------------- the login flow --------------------------- *)
\* POST /api/login/start, the handler as a whole: refuse in a display-less
\* container; else stop the old instance (exceptions swallowed), pkill, unlink
\* the lock files, create and start a visible instance, open the login page
api_login_start ==
    \E no_display \in BOOLEAN :
        IF no_display
        THEN UNCHANGED vars
        ELSE /\ loginCount < MaxLogins
             /\ \E os \in StopOutcomes, kills \in BOOLEAN, o \in StartOutcomes, goto_ok \in BOOLEAN :
                   LET new == LoginSession(loginCount + 1)
                       S1 == IF capture_instance # None
                             THEN unreachable(stop(Sess, capture_instance[1], os),
                                              capture_instance[1])
                             ELSE Sess
                       S2 == unlink_lock_files(pkill(S1, kills))
                   IN  /\ IF capture_instance # None
                          THEN CanStop(Sess, capture_instance[1], os) ELSE os = "ok"
                       /\ CanStart(S2, o)
                       /\ (o # "ok") => goto_ok
                       /\ SetSess(start(S2, new, o))
                       /\ login_url' = IF o # "ok" THEN "none"
                                       ELSE IF goto_ok THEN "login" ELSE "other"
                       /\ capture_instance' = Some(new)
             /\ loginCount' = loginCount + 1
             /\ UNCHANGED <<tasks, pc, run, hist, logged_in_file, site, callVars>>

\* the human completes the login in the visible window: the page leaves /user/login
user_logs_in ==
    /\ capture_instance # None
    /\ proc[capture_instance[1]] = "live"
    /\ login_url = "login"
    /\ login_url' = "other"
    /\ UNCHANGED <<tasks, pc, run, hist, sessVars, capture_instance, loginCount,
                   logged_in_file, site, callVars>>

\* GET /api/login/check: is_logged_in navigates the instance's page to the home page
api_login_check ==
    /\ IF capture_instance = None
       THEN login_url' = login_url
       ELSE \/ login_url' = login_url
            \/ /\ page[capture_instance[1]] /\ proc[capture_instance[1]] = "live"
               /\ login_url' = "other"
    /\ UNCHANGED <<tasks, pc, run, hist, sessVars, capture_instance, loginCount,
                   logged_in_file, site, callVars>>

\* POST /api/login/finish, the handler as a whole: read the page URL, drop the
\* instance without stop(), pkill, unlink the lock files, write the sentinel
api_login_finish ==
    \E kills \in BOOLEAN :
        LET logged_in == /\ capture_instance # None
                         /\ page[capture_instance[1]]
                         /\ login_url # "login"
        IN  /\ capture_instance' = None
            /\ login_url' = "none"
            /\ SetSess(unlink_lock_files(pkill(
                   IF capture_instance # None
                   THEN unreachable(Sess, capture_instance[1]) ELSE Sess, kills)))
            /\ logged_in_file' = logged_in
            /\ UNCHANGED <<tasks, pc, run, hist, loginCount, site, callVars>>

(* ------------------------ _merge_pdfs on its own ----------------------- *)
SeqsUpTo(S, n) == UNION {[1..k -> S] : k \in 0..n}

MergeInputs == [pdf_files : SeqsUpTo(Fragments, MaxFrags), on_disk : SUBSET Fragments]

\* self._merge_pdfs(pdf_files, output_path)
merge_call ==
    /\ merge_out = None
    /\ merge_out' = Some(_merge_pdfs(merge_in.pdf_files, merge_in.on_disk))
    /\ UNCHANGED <<tasks, pc, run, hist, sessVars, loginVars, site, merge_in, life, dom, url_set>>

(* --------------- a MuseScoreCapture object on its own ------------------ *)
\* await capture.start() on an object that was not started yet
start_call ==
    \E s \in Sessions, o \in StartOutcomes :
        /\ ~life[s].started
        /\ CanStart(Sess, o)
        /\ SetSess(start(Sess, s, o))
        /\ life' = [life EXCEPT ![s].started = TRUE]
        /\ UNCHANGED <<tasks, pc, run, hist, loginVars, site, merge_in, merge_out, dom, url_set>>

\* await capture.stop(), any number of times: each call is logged with what it
\* did (context.close() called, playwright.stop() called, an exception raised)
stop_call ==
    \E s \in Sessions, o \in StopOutcomes :
        /\ life[s].started
        /\ Len(life[s].stops) < MaxStops
        /\ CanStop(Sess, s, o)
        /\ SetSess(stop(Sess, s, o))
        /\ life' = [life EXCEPT ![s].stops =
                        Append(@, [closes |-> closes_context(Sess, s),
                                   stops |-> stops_driver(Sess, s) /\ o # "close_raises",
                                   raised |-> o # "ok"])]
        /\ UNCHANGED <<tasks, pc, run, hist, loginVars, site, merge_in, merge_out, dom, url_set>>

(* --------------------- _extract_svg_urls on its own -------------------- *)
\* what the selectors and the filters of the evaluated script look at in a URL:
\* the substrings "score_", "scoredata" and ".svg", and the marker of a
\* non-primary variant ("@" for a thumbnail, "bgclr" for a background layer)
DomUrls == [score_ : BOOLEAN, scoredata : BOOLEAN, svg : BOOLEAN,
            variant : {"primary", "@", "bgclr"}]

\* an element with its URL attribute (img.src, object.data, embed.src)
Elements == [tag : {"img", "object", "embed"}, src : DomUrls]

Doms == UNION {{{f[i] : i \in 1..k} : f \in [1..k -> Elements]} : k \in 0..MaxElems}

\* src.includes('score')
includes_score(src) == src.score_ \/ src.scoredata

\* the array `urls` built by the script of _extract_svg_urls, as a set
_extract_svg_urls(elements) ==
    {e.src : e \in {i \in elements : /\ i.tag = "img" /\ i.src.score_
                                      /\ i.src.scoredata /\ i.src.variant = "primary"}}
    \cup {e.src : e \in {i \in elements : /\ i.tag \in {"object", "embed"} /\ i.src.svg
                                          /\ includes_score(i.src)}}

\* await self._extract_svg_urls(collected_urls) on an empty set
extract_call ==
    /\ url_set = None
    /\ url_set' = Some({} \cup _extract_svg_urls(dom))
    /\ UNCHANGED <<tasks, pc, run, hist, sessVars, loginVars, site, merge_in, merge_out, life, dom>>

(* --------------------------- specifications ---------------------------- *)
api_capture == api_capture_upto(MaxTasks)

api_capture_once == api_capture_upto(1)

Thread(t) ==
    \/ do_capture_start(t)
    \/ do_capture_running(t)
    \/ get_score_info(t)
    \/ collect_first(t)
    \/ collect_scroll(t)
    \/ collect_sort(t)
    \/ progress_callback(t)
    \/ fetch_and_convert(t)
    \/ finish_capture(t)
    \/ do_capture_status(t)
    \/ do_capture_error(t)
    \/ do_capture_result(t)
    \/ do_capture_progress(t)
    \/ do_capture_except(t)
    \/ do_capture_except_error(t)
    \/ do_capture_stop(t)

Threads == \E t \in TaskIds : Thread(t)

Reads == api_task_status \/ api_tasks \/ api_download \/ api_download_pdf \/ api_status

Login == api_login_start \/ user_logs_in \/ api_login_check \/ api_login_finish

\* the whole server: captures, pollers and the login flow interleaved
Next == api_capture \/ Threads \/ Reads \/ Login

Spec == Init /\ [][Next]_vars

\* every started thread keeps being scheduled
FairSpec == Spec /\ \A t \in TaskIds : WF_vars(Thread(t))

\* one capture request on a score page with up to MaxUrls locators, and its pollers
CaptureInit == InitWith(Sites(MaxUrls), {NoMerge}, {NoDom})

CaptureNext == api_capture_once \/ Threads \/ Reads

CaptureSpec == CaptureInit /\ [][CaptureNext]_vars

FairCaptureSpec == CaptureSpec /\ \A t \in TaskIds : WF_vars(Thread(t))

\* _merge_pdfs applied to every fragment list and every set of files on disk
MergeInit == InitWith({SharedSite}, MergeInputs, {NoDom})

MergeNext == merge_call

MergeSpec == MergeInit /\ [][MergeNext]_vars

\* concurrent captures whose directory names fall into one clock second: the
\* second browser can open the profile once login/finish has unlinked the lock
\* files of the first
DirInit == InitWith({SameSecondSite}, {NoMerge}, {NoDom})

DirNext == api_capture \/ Threads \/ api_login_finish

DirSpec == DirInit /\ [][DirNext]_vars

\* MuseScoreCapture objects started and stopped on their own
LifeNext == start_call \/ stop_call

LifeSpec == Init /\ [][LifeNext]_vars

\* _extract_svg_urls applied to every page of up to MaxElems elements
ExtractInit == InitWith({SharedSite}, {NoMerge}, Doms)

ExtractNext == extract_call

ExtractSpec == ExtractInit /\ [][ExtractNext]_vars

(* ------------------------------- claims -------------------------------- *)
Status(t) == tasks[t].status
Terminal(t) == Status(t) \in {"completed", "error"}

\* C1: under every interleaving of capture requests and login-flow operations,
\* at most one live session has the browser profile open.
C1_OneLiveSessionPerProfile == Cardinality(Live(Sess)) <= 1

\* the steps whose failure do_capture turns into an error
FatalSteps == {"start", "metadata", "discovery", "save", "merge"}

FetchFailed(t) == \E i \in 1..Len(hist[t].dl) : hist[t].dl[i][2] = "none"

ConversionFailed(t) ==
    \E i \in 1..Len(run[t].pages) :
        run[t].pages[i].png \notin run[t].files \/ run[t].pages[i].pdf \notin run[t].files

\* the thread has written its outcome and is about to stop the session
Outcome(t) == pc[t] = "stop"

\* C2 (as claimed): whichever step fails (session start, metadata load,
\* discovery, a fetch, a conversion, the merge), the task ends in error.
C2_AnyFailureEndsInError ==
    \A t \in Created :
        (Outcome(t) /\ (hist[t].failed # {} \/ FetchFailed(t) \/ ConversionFailed(t)))
            => Status(t) = "error"

\* C2 (amended): every task created by a capture request eventually reaches a
\* terminal status and its thread ends; its outcome is error exactly when
\* session start, metadata load, discovery, the saving of a downloaded SVG or
\* the merge failed, so a failed fetch or conversion alone leaves it completed.
C2_EveryTaskEnds ==
    /\ [](\A t \in Created :
            Outcome(t) => (Status(t) = "error" <=> hist[t].failed \cap FatalSteps # {}))
    /\ \A t \in TaskIds : (pc[t] = "start") ~> (pc[t] = "done" /\ Terminal(t))

\* a task that ended completed although one of its fetches failed
C2_Witness ==
    \E t \in Created :
        /\ Outcome(t) /\ FetchFailed(t) /\ Status(t) = "completed"
        /\ tasks[t].result # None /\ tasks[t].result[1].total_pages >= 1

PathsAsClaimed == {<<"pending", "running">>, <<"running", "completed">>, <<"running", "error">>}

\* C3 (as claimed): a task's status changes only along pending -> running,
\* running -> completed and running -> error.
C3_OnlyViaRunning ==
    [][\A t \in Created : Status(t)' # Status(t) => <<Status(t), Status(t)'>> \in PathsAsClaimed]_vars

\* C3 (amended): a task's status changes only along pending -> running,
\* running -> completed, running -> error and, when start() raised, pending ->
\* error; once completed or error it never changes again.
C3_StatusPaths ==
    [][\A t \in Created :
          Status(t)' # Status(t) =>
              \/ <<Status(t), Status(t)'>> \in PathsAsClaimed
              \/ /\ <<Status(t), Status(t)'>> = <<"pending", "error">>
                 /\ hist[t].failed = {"start"}]_vars

\* a task in error that was never running: its start() raised
C3_Witness ==
    \E t \in Created : Status(t) = "error" /\ hist[t].failed = {"start"} /\ pc[t] = "except_error"

DownloadsRefused(t) ==
    /\ \A filename \in FileNames : download_code(t, filename) = 404
    /\ download_pdf_code(t) = 404

\* C4 (as claimed): in every state of the task table, result is non-null
\* exactly when the status is completed and error is non-null exactly when the
\* status is error.
C4_ResultIffCompleted ==
    \A t \in Created :
        /\ tasks[t].result # None <=> Status(t) = "completed"
        /\ tasks[t].error # None <=> Status(t) = "error"

\* C4 (amended): result is non-null only when the status is completed and error
\* is non-null only when the status is error; the status is written first, so
\* the converse holds once the thread has written its outcome; the two download
\* routes answer 404 for every task that is missing, pending, running or in
\* error.
C4_ResultOnlyWhenCompleted ==
    /\ \A t \in Created :
          /\ tasks[t].result # None => Status(t) = "completed"
          /\ tasks[t].error # None => Status(t) = "error"
          /\ pc[t] \in {"stop", "done"} =>
                /\ Status(t) = "completed" => tasks[t].result # None
                /\ Status(t) = "error" => tasks[t].error # None
    /\ \A t \in KnownOrNot :
          (t \notin Created \/ Status(t) # "completed") => DownloadsRefused(t)

\* a task marked completed whose result is not written yet, with its page file
\* on disk: a download of the file is refused
C4_Witness ==
    \E t \in Created :
        Status(t) = "completed" /\ tasks[t].result = None /\ <<1, "svg">> \in OnDisk(t)

\* C7: no task is completed with a result of zero pages.
C7_NoCompletedWithZeroPages ==
    \A t \in Created :
        (Status(t) = "completed" /\ tasks[t].result # None)
            => tasks[t].result[1].total_pages > 0

\* the page loop of capture_score_pages has ended
LoopOver(t) == pc[t] = "finish"

\* capture_score_pages has returned a result without "error"
ReturnedOk(t) == pc[t] = "returned" /\ TheResult(t).error = None

\* C5: during one capture_score_pages run over a non-empty locator list the
\* progress_callback calls never decrease in `current`, keep `total` constant
\* and end with current = total, whatever fetches and conversions fail; the
\* task's percent is 100 once it is completed.
C5_ProgressMonotoneToTotal ==
    \A t \in Created :
        LET cb == hist[t].cb
        IN  /\ \A i, j \in 1..Len(cb) : i < j => cb[i][1] <= cb[j][1]
            /\ \A i \in 1..Len(cb) : cb[i][2] = Len(run[t].all_svg_urls)
            /\ (LoopOver(t) \/ ReturnedOk(t)) =>
                  /\ cb # <<>>
                  /\ cb[Len(cb)][1] = cb[Len(cb)][2]
                  /\ tasks[t].current_page = tasks[t].total_pages
                  /\ tasks[t].progress = 100
            /\ Status(t) = "completed" => tasks[t].progress = 100

\* the loop over three locators has ended with a failed fetch and a failed conversion
C5_Witness ==
    \E t \in Created :
        LoopOver(t) /\ Len(hist[t].cb) = 3 /\ FetchFailed(t) /\ ConversionFailed(t)

\* the positions of the sorted list whose fetch had the given outcomes
PositionsWith(t, bodies) == {i \in 1..Len(hist[t].dl) : hist[t].dl[i][2] \in bodies}

PagesAre(t, positions) ==
    LET pages == TheResult(t).pages
    IN  /\ TheResult(t).total_pages = Cardinality(positions)
        /\ Len(pages) = Cardinality(positions)
        /\ {pages[k].page : k \in 1..Len(pages)} = positions
        /\ \A k, l \in 1..Len(pages) : k < l => pages[k].page < pages[l].page

AttemptedOnceInOrder(t) ==
    /\ Len(hist[t].dl) = run[t].page_num
    /\ \A i \in 1..Len(hist[t].dl) : hist[t].dl[i][1] = run[t].all_svg_urls[i]
    /\ (LoopOver(t) \/ ReturnedOk(t)) => Len(hist[t].dl) = Len(run[t].all_svg_urls)

\* C6 (as claimed): a failed fetch never aborts the capture; every locator is
\* attempted once, in order; total_pages is the number of locators whose
\* download succeeded and pages holds exactly those positions, ascending.
C6_PagesAreSuccessfulDownloads ==
    \A t \in Created :
        /\ AttemptedOnceInOrder(t)
        /\ ReturnedOk(t) => PagesAre(t, PositionsWith(t, {"empty", "bytes"}))

\* C6 (amended): a failed fetch never aborts the capture; every locator is
\* attempted once, in order; total_pages is the number of locators whose
\* download returned a non-empty body (an OK response with an empty body is
\* skipped like a failed one) and pages holds exactly those positions, ascending.
C6_PagesAreNonEmptyDownloads ==
    \A t \in Created :
        /\ AttemptedOnceInOrder(t)
        /\ ReturnedOk(t) => PagesAre(t, PositionsWith(t, {"bytes"}))

\* three locators, the second fetch failing: two pages, numbered 1 and 3
C6_Witness ==
    \E t \in Created :
        /\ ReturnedOk(t)
        /\ Len(hist[t].dl) = 3
        /\ PositionsWith(t, {"none"}) = {2}
        /\ TheResult(t).total_pages = 2
        /\ TheResult(t).pages[1].page = 1 /\ TheResult(t).pages[2].page = 3

NoUrlTwice(urls) == \A i, j \in 1..Len(urls) : urls[i] = urls[j] => i = j

\* C8 (as claimed): the sequence returned by _collect_all_svg_urls holds no URL
\* twice and is strictly ascending in the page index of _extract_page_num.
C8_StrictlyAscending ==
    \A t \in Created :
        LET urls == run[t].all_svg_urls
        IN  /\ NoUrlTwice(urls)
            /\ \A i, j \in 1..Len(urls) :
                  i < j => _extract_page_num(urls[i]) < _extract_page_num(urls[j])

\* C8 (amended): the sequence returned by _collect_all_svg_urls holds no URL
\* twice and is ascending, not strictly, in the page index: URLs with the same
\* index (the same score_<n> token, or no token and score_0) are all kept.
C8_AscendingNoDuplicates ==
    \A t \in Created :
        LET urls == run[t].all_svg_urls
        IN  /\ NoUrlTwice(urls)
            /\ \A i, j \in 1..Len(urls) :
                  i < j => _extract_page_num(urls[i]) <= _extract_page_num(urls[j])

\* a returned list of three with a tie in the page index and a larger index after it
C8_Witness ==
    \E t \in Created :
        LET urls == run[t].all_svg_urls
        IN  /\ Len(urls) = 3
            /\ _extract_page_num(urls[1]) = _extract_page_num(urls[2])
            /\ _extract_page_num(urls[2]) < _extract_page_num(urls[3])

InDiscovery(t) == pc[t] \in {"discover", "scroll"}

\* C9: _collect_all_svg_urls performs at most expected_pages + 5 scroll
\* iterations and then returns, also when the page never exposes
\* expected_pages locators.
C9_DiscoveryTerminates ==
    /\ [](\A t \in Created : run[t].scrolls <= run[t].total_pages + ScrollExtra)
    /\ \A t \in TaskIds : InDiscovery(t) ~> ~InDiscovery(t)

\* discovery about to return after its whole budget, short of the expected count
C9_Witness ==
    \E t \in Created :
        /\ pc[t] = "sort"
        /\ run[t].scrolls = run[t].total_pages + ScrollExtra
        /\ Cardinality(run[t].collected_urls) < run[t].total_pages

\* the fragments of a list that exist, in list order
Existing(pdf_files, on_disk) == SelectSeq(pdf_files, LAMBDA f : f \in on_disk)

\* C10: for every fragment list and every set of fragments on disk, _merge_pdfs
\* appends exactly the existing fragments in list order and does not raise.
C10_MergeSkipsMissing ==
    merge_out # None =>
        /\ ~merge_out[1].raised
        /\ merge_out[1].doc = Existing(merge_in.pdf_files, merge_in.on_disk)

\* fragments [1, 2, 3] with 2 missing: the merged document is 1 then 3
C10_Witness ==
    /\ merge_in = [pdf_files |-> <<1, 2, 3>>, on_disk |-> {1, 3}]
    /\ merge_out = Some([raised |-> FALSE, doc |-> <<1, 3>>])

\* the PDF fragments the run has produced
FragmentsProduced(t) == {f \in run[t].files : f[2] = "pdf"}

\* the merge step ran: it wrote the merged document or it raised
MergeInvoked(t) == <<0, "complete.pdf">> \in run[t].files \/ "merge" \in hist[t].failed

\* C11: a returned result has a non-null pdf_file exactly when at least one
\* page fragment was produced, and with no fragment the merge step is never
\* invoked.
C11_MergedPathIffFragments ==
    \A t \in Created :
        /\ pc[t] = "returned" =>
              (TheResult(t).pdf_file # None <=> FragmentsProduced(t) # {})
        /\ (pc[t] \in {"finish", "returned", "except"} /\ FragmentsProduced(t) = {}) =>
              ~MergeInvoked(t)

\* a result with a page whose PDF conversion failed: no fragment, no merged path
C11_Witness ==
    \E t \in Created :
        /\ ReturnedOk(t)
        /\ TheResult(t).total_pages >= 1
        /\ FragmentsProduced(t) = {}
        /\ TheResult(t).pdf_file = None

\* the phase of task t's capture_score_pages invocation
Phase(t) ==
    CASE pc[t] \in {"idle", "start", "set_running"} -> "NOT_STARTED"
      [] pc[t] = "metadata" -> "LOADING_METADATA"
      [] pc[t] \in {"discover", "scroll", "sort"} -> "DISCOVERING_RESOURCES"
      [] pc[t] \in {"progress", "download"} -> "FETCHING"
      [] pc[t] = "finish" -> "MERGING"
      [] pc[t] = "returned" /\ TheResult(t).error = None -> "DONE"
      [] pc[t] = "returned" /\ TheResult(t).error # None -> "FAILED"
      [] pc[t] = "except" -> "FAILED"
      [] OTHER -> "OVER"

PhaseOrder == {<<"NOT_STARTED", "LOADING_METADATA">>,
               <<"LOADING_METADATA", "DISCOVERING_RESOURCES">>,
               <<"DISCOVERING_RESOURCES", "FETCHING">>,
               <<"FETCHING", "MERGING">>,
               <<"MERGING", "DONE">>}

WorkingPhases == {"NOT_STARTED", "LOADING_METADATA", "DISCOVERING_RESOURCES", "FETCHING", "MERGING"}

\* the fetches made so far are those of the first positions of the sorted list
FetchedInOrder(t) ==
    /\ Len(hist[t].dl) <= Len(run[t].all_svg_urls)
    /\ \A i \in 1..Len(hist[t].dl) : hist[t].dl[i][1] = run[t].all_svg_urls[i]

PhaseInvariant(t) ==
    /\ Phase(t) \in {"NOT_STARTED", "LOADING_METADATA", "DISCOVERING_RESOURCES"} =>
          /\ hist[t].dl = <<>> /\ hist[t].cb = <<>>
          /\ run[t].all_svg_urls = <<>>
    /\ Phase(t) = "FETCHING" =>
          /\ run[t].all_svg_urls # <<>>
          /\ IsSortedByPageNum(run[t].all_svg_urls)
          /\ FetchedInOrder(t)
          /\ ~MergeInvoked(t)
    /\ Phase(t) \in {"MERGING", "DONE"} =>
          /\ FetchedInOrder(t)
          /\ Len(hist[t].dl) = Len(run[t].all_svg_urls)
    /\ (Phase(t) \in {"MERGING", "DONE", "FAILED"} /\ MergeInvoked(t)) =>
          /\ FetchedInOrder(t)
          /\ Len(hist[t].dl) = Len(run[t].all_svg_urls)

\* C12: within one capture the phases occur only in the order metadata load,
\* discovery, fetch of locators 1..n in sorted order, merge, done: no fetch
\* starts before discovery has returned, the merge starts only after the last
\* fetch-and-convert has finished, and the failure state is entered from a
\* working phase and is never left for one.
C12_PhasesInOrder ==
    /\ [](\A t \in TaskIds : PhaseInvariant(t))
    /\ [][\A t \in TaskIds :
            Phase(t)' # Phase(t) =>
               \/ <<Phase(t), Phase(t)'>> \in PhaseOrder
               \/ Phase(t) \in WorkingPhases /\ Phase(t)' = "FAILED"
               \/ Phase(t) \in {"DONE", "FAILED"} /\ Phase(t)' = "OVER"]_vars

\* a capture that went through every phase: three fetches, then the merge
C12_Witness ==
    \E t \in Created :
        /\ Phase(t) = "DONE"
        /\ Len(hist[t].dl) = 3
        /\ MergeInvoked(t)
        /\ TheResult(t).pdf_file # None

\* C13: under every interleaving of capture tasks and poll, list and download
\* requests, a step of one task's thread leaves every other task's record
\* unchanged, and poll, list and download requests change no task record: a
\* step that moves task t's thread on leaves the other records as they are, and
\* a step that moves no thread on (a scroll iteration, a poll, list, download or
\* login request) leaves the whole table as it is.
C13_ThreadWritesOwnRecord ==
    [][/\ tasks' # tasks => \E t \in TaskIds : pc[t]' # pc[t]
       /\ \A t \in TaskIds :
             pc[t]' # pc[t] => \A u \in Created \ {t} : tasks'[u] = tasks[u]]_vars

\* two tasks side by side: the first reports its progress while the second has
\* ended in error without a progress report
C13_Witness ==
    /\ Created = {1, 2}
    /\ pc[1] = "download" /\ Status(1) = "running" /\ tasks[1].current_page = 1
    /\ pc[2] = "done" /\ Status(2) = "error" /\ tasks[2].current_page = 0

\* C14: any two capture tasks own distinct output directories, also two
\* captures of the same title whose directory names are computed in the same
\* clock second.
C14_DistinctOutputDirs ==
    \A t, u \in TaskIds :
        (t # u /\ run[t].output_dir # None /\ run[u].output_dir # None)
            => run[t].output_dir # run[u].output_dir

\* C15: when the page's alt text carries no page count, or a page count of 0,
\* the capture performs no scroll iteration and no fetch and does not complete.
C15_NoDefaultedPageCount ==
    (site.alt_pages \in {None, Some(0)}) =>
        \A t \in Created :
            /\ run[t].scrolls = 0
            /\ hist[t].dl = <<>>
            /\ Status(t) # "completed"

C18_ProgressAfterProcessing ==
    \A t \in Created :
        (Status(t) = "running" /\ Phase(t) \in {"FETCHING", "MERGING"})
            => tasks[t].current_page <= Len(hist[t].dl)

\* C19: when neither scroller selector matches, discovery still runs
\* scroll-and-re-extract iterations before it sorts and returns.
C19_ScrollsWithoutScroller ==
    \A t \in Created :
        (pc[t] = "sort" /\ ~run[t].scroller) => run[t].scrolls >= 1

\* C17: a second stop() on the same session performs no further close or stop
\* action on the browser context or the driver, and stop() on a session whose
\* start() created no context closes nothing and, when start() created no
\* driver either, does not fail.
C17_StopIdempotent ==
    \A s \in Sessions :
        /\ \A i \in 2..Len(life[s].stops) :
              ~life[s].stops[i].closes /\ ~life[s].stops[i].stops
        /\ \A i \in 1..Len(life[s].stops) :
              /\ ~context[s] => ~life[s].stops[i].closes
              /\ (~context[s] /\ ~playwright[s]) => ~life[s].stops[i].raised

\* C20: no locator of a non-primary variant is added to the set, whichever
\* element (img, object or embed) it is extracted from.
C20_NoVariantLocator ==
    url_set # None => \A url \in url_set[1] : url.variant = "primary"

\* a scroll iteration of task t's discovery
ScrollIteration(t) == pc[t] = "scroll" /\ run[t].scrolls' = run[t].scrolls + 1

Reached(t) == Cardinality(run[t].collected_urls) >= run[t].total_pages

\* C21 (as claimed): no scroll iteration is performed once the accumulated set
\* has reached expected_pages, so none at all when the first extraction
\* already yields expected_pages locators.
C21_NoScrollOnceReached ==
    [][\A t \in TaskIds : ScrollIteration(t) => ~Reached(t)]_vars

\* C21 (amended): the set size is tested only at the end of an iteration, so
\* the first iteration is performed whatever the first extraction yielded;
\* every later iteration is performed only while the set is short of
\* expected_pages, and the loop ends at the first iteration after which the
\* set size is >= expected_pages.
C21_ScrollStopsAfterReaching ==
    [][\A t \in TaskIds :
          ScrollIteration(t) =>
              /\ Reached(t) => run[t].scrolls = 0
              /\ Reached(t)' => pc[t]' = "sort"]_vars

\* the first extraction has yielded the expected pages and the loop is about
\* to scroll all the same
C21_Witness ==
    \E t \in Created :
        /\ pc[t] = "scroll" /\ run[t].scrolls = 0
        /\ run[t].total_pages >= 1 /\ Reached(t)

\* C22: once the sentinel file exists, a finish-login call issued while no
\* session is open (no login attempt, so none that failed) does not remove it,
\* and api_status keeps reporting logged_in = true.
C22_SentinelKept ==
    [][(status_logged_in /\ capture_instance = None) => status_logged_in']_vars

\* C23: login/start and login/finish remove the profile's lock files only
\* when no live browser process still holds the profile.
C23_LocksClearedOnlyWhenHolderDead ==
    [][((api_login_start \/ api_login_finish) /\ lockFile /\ ~lockFile')
          => Live(Sess)' = {}]_vars

\* C24: every path of a page entry of a returned result refers to a file that
\* the run wrote.
C24_PagePathsExist ==
    \A t \in Created :
        ReturnedOk(t) =>
            \A i \in 1..Len(TheResult(t).pages) :
                LET entry == TheResult(t).pages[i]
                IN  {entry.svg, entry.png, entry.pdf} \subseteq run[t].files

====
